---- MODULE Spec2Model ----
(***************************************************************************)
(* Vornado OSCR37 accessory: the shared status stream fanStatus$ (throttle *)
(* + switchMap + shareReplay), the poller, the characteristic getters and  *)
(* setters, and the Alexa client's readiness gate, status query, action    *)
(* execution and capability-state parser.                                  *)
(*                                                                         *)
(* Time is counted in ticks.  The 20 ms throttle window is one tick; the   *)
(* readiness timeout (30 s in the code) is kept longer than the window,    *)
(* which is the only relation between the two that matters.                *)
(***************************************************************************)
EXTENDS Integers, Sequences, FiniteSets, TLC

\* ------------------------------------------------------------------ bounds
NumReaders == 2
NumSetters == 2
MaxOthers == 1
MaxInFlight == 2
MaxCaps == 2

\* ------------------------------------------------------- program constants
ThrottleTicks == 1
TimeoutTicks == 2

ACTIVE == 1
INACTIVE == 0
SWING_ENABLED == 1
SWING_DISABLED == 0

Readers == 1..NumReaders
Setters == 1..NumSetters
\* the set calls that run next to the reads
GateSetters == {1}
QueryIds == 1..MaxInFlight

\* ------------------------------------------------------------- FanStatus
Absent == "absent"

Bool(b) == IF b THEN "true" ELSE "false"

EmptyStatus ==
  [connected |-> Absent, isOn |-> Absent, fanIntensity |-> Absent,
   isOscillating |-> Absent, shutdownTimer |-> Absent]

\* "no value": an empty replay buffer, an unset poller.previous, a promise
\* that has not resolved
Null ==
  [connected |-> "null", isOn |-> "null", fanIntensity |-> "null",
   isOscillating |-> "null", shutdownTimer |-> "null"]

DegradedMutant == [EmptyStatus EXCEPT !.connected = "false", !.isOn = "false"]

\* catchError(err => of({ connected: false }))
DegradedStatus == [EmptyStatus EXCEPT !.connected = "false"]

\* ------------------------------------------------- capability-state parser
\* one element of capabilityStates: a JSON string.  json = "bad" is a string
\* JSON.parse rejects; otherwise namespace / instance / value are the parsed
\* fields (for Alexa.EndpointHealth, value is the nested value.value).
Cap(ns, inst, val) == [json |-> "ok", namespace |-> ns, instance |-> inst, value |-> val]
BadJson == [json |-> "bad", namespace |-> Absent, instance |-> Absent, value |-> Absent]

Threw == [ok |-> FALSE, status |-> Null]
Parsed(fs) == [ok |-> TRUE, status |-> fs]

IntensityValuesMutant == {"0", "1", "2", "3", "9"}
TimerValuesMutant == {"0", "1", "2", "3", "4", "9"}

IntensityValues == {"0", "1", "2", "3"}
TimerValues == {"0", "1", "2", "3", "4"}

RECURSIVE parseFrom(_, _, _)
parseFrom(states, i, fanStatus) ==
  IF i > Len(states) THEN Parsed(fanStatus)
  ELSE LET state == states[i] IN
    IF state.namespace = "Alexa.EndpointHealth" THEN
      parseFrom(states, i + 1, [fanStatus EXCEPT !.connected = Bool(state.value = "OK")])
    ELSE IF state.namespace = "Alexa.PowerController" THEN
      IF state.value # Absent
      THEN parseFrom(states, i + 1, [fanStatus EXCEPT !.isOn = Bool(state.value = "ON")])
      ELSE parseFrom(states, i + 1, fanStatus)
    ELSE IF state.namespace = "Alexa.ModeController" THEN
      IF state.instance = "1" /\ state.value # Absent THEN
        IF state.value \notin IntensityValues
        THEN Threw
        ELSE parseFrom(states, i + 1, [fanStatus EXCEPT !.fanIntensity = state.value])
      ELSE IF state.instance = "3" /\ state.value # Absent THEN
        IF state.value \notin TimerValues
        THEN parseFrom(states, i + 1, fanStatus)
        ELSE parseFrom(states, i + 1, [fanStatus EXCEPT !.shutdownTimer = state.value])
      ELSE parseFrom(states, i + 1, fanStatus)
    ELSE IF state.namespace = "Alexa.ToggleController" THEN
      IF state.instance = "2" /\ state.value # Absent
      THEN parseFrom(states, i + 1, [fanStatus EXCEPT !.isOscillating = Bool(state.value = "ON")])
      ELSE parseFrom(states, i + 1, fanStatus)
    ELSE parseFrom(states, i + 1, fanStatus)

parseCapabilityStatesMutant(states) == parseFrom(states, 2, EmptyStatus)

parseCapabilityStates(states) == parseFrom(states, 1, EmptyStatus)

parseDeviceResponseMutant(res) ==
  IF ~res.hasStates \/ Len(res.deviceStates) < 1 THEN Parsed(EmptyStatus)
  ELSE parseCapabilityStates(res.deviceStates[1])

\* res.deviceStates is a sequence of devices, each a sequence of capability
\* strings; only the first device is read.  states.map(JSON.parse) throws on
\* the first string that is not JSON.
parseDeviceResponse(res) ==
  IF ~res.hasStates \/ Len(res.deviceStates) < 1 THEN Threw
  ELSE LET capabilityStates == res.deviceStates[1] IN
    IF \E i \in 1..Len(capabilityStates) : capabilityStates[i].json = "bad"
    THEN Threw
    ELSE parseCapabilityStates(capabilityStates)

\* what the querySmarthomeDevices callback can be handed
TransportError == [err |-> TRUE, hasStates |-> FALSE, deviceStates |-> <<>>]
QueryResult(devs) == [err |-> FALSE, hasStates |-> TRUE, deviceStates |-> devs]
\* a result object without the deviceStates key
NoStatesResult == [err |-> FALSE, hasStates |-> FALSE, deviceStates |-> <<>>]

DeviceOn ==
  <<Cap("Alexa.EndpointHealth", Absent, "OK"), Cap("Alexa.PowerController", Absent, "ON"),
    Cap("Alexa.ModeController", "1", "2"), Cap("Alexa.ToggleController", "2", "OFF")>>
DeviceOff ==
  <<Cap("Alexa.EndpointHealth", Absent, "OK"), Cap("Alexa.PowerController", Absent, "OFF"),
    Cap("Alexa.ModeController", "1", "2"), Cap("Alexa.ToggleController", "2", "OFF")>>
DeviceUnreachable == <<Cap("Alexa.EndpointHealth", Absent, "UNREACHABLE")>>
DeviceBadIntensity ==
  <<Cap("Alexa.PowerController", Absent, "ON"), Cap("Alexa.ModeController", "1", "9")>>
DeviceBadJson == <<Cap("Alexa.PowerController", Absent, "ON"), BadJson>>

Responses ==
  {TransportError, QueryResult(<<>>), QueryResult(<<DeviceOn>>), QueryResult(<<DeviceOff>>),
   QueryResult(<<DeviceUnreachable>>), QueryResult(<<DeviceBadIntensity>>),
   QueryResult(<<DeviceBadJson>>)}

\* getDeviceStatus once the transport has answered: the value the inner
\* observable emits, or an error
getDeviceStatus(res) == IF res.err THEN Threw ELSE parseDeviceResponse(res)

fanStatusOfMutant(result) == result.status

\* the catchError around getDeviceStatus in fanStatus$
fanStatusOf(result) == IF result.ok THEN result.status ELSE DegradedStatus

\* --------------------------------------------------------- command model
FanPowerToggleCommand(isOn) ==
  [action |-> IF isOn THEN "turnOn" ELSE "turnOff", instance |-> Absent, mode |-> Absent]

FanIntensityChangeCommand(intensity) ==
  [action |-> "setModeValue", instance |-> "1", mode |-> intensity]

FanOscillationToggleCommandMutant(isOscillating) ==
  [action |-> IF isOscillating THEN "turnOnToggle" ELSE "turnOffToggle",
   instance |-> "1", mode |-> Absent]

FanOscillationToggleCommand(isOscillating) ==
  [action |-> IF isOscillating THEN "turnOnToggle" ELSE "turnOffToggle",
   instance |-> "2", mode |-> Absent]

NoCommand == [action |-> "none", instance |-> Absent, mode |-> Absent]

\* Number.prototype.toFixed(0) on a non-negative integer
Digits == <<"0", "1", "2", "3", "4", "5", "6", "7", "8", "9">>
toFixed0(n) == IF n < 0 THEN "-1" ELSE IF n < 10 THEN Digits[n + 1] ELSE "10+"

intensityOfMutant(value) == value \div 25

\* Math.floor((value - 1) / 25) for an integer value (-1 for value 0)
intensityOf(value) == (value - 1) \div 25

\* the earlier accessory variants:
\* percentage <= 25 ? '0' : percentage <= 50 ? '1' : percentage <= 75 ? '2' : '3'
intensityV1(percentage) ==
  IF percentage <= 25 THEN "0" ELSE IF percentage <= 50 THEN "1"
  ELSE IF percentage <= 75 THEN "2" ELSE "3"

\* a set request as the framework hands it over: the handler and its value
Request(op, value) == [op |-> op, value |-> value]
NoRequest == Request("none", 0)

\* ------------------------------------------------------ accessory getters
NoOutcome == [kind |-> "none", val |-> 0]
Value(v) == [kind |-> "value", val |-> v]
\* HapStatusError(SERVICE_COMMUNICATION_FAILURE)
CommunicationFailure == [kind |-> "failure", val |-> 0]
Unexpected == [kind |-> "error", val |-> 0]
\* poll(): the snapshot itself (changed) or null
Changed == [kind |-> "changed", val |-> 0]
NoChange == [kind |-> "null", val |-> 0]

fanIntensityToPercentageMutant(intensity) ==
  CASE intensity = "0" -> Value(0)
    [] intensity = "1" -> Value(25)
    [] intensity = "2" -> Value(50)
    [] intensity = "3" -> Value(75)
    [] OTHER -> Unexpected

fanIntensityToPercentage(intensity) ==
  CASE intensity = "0" -> Value(25)
    [] intensity = "1" -> Value(50)
    [] intensity = "2" -> Value(75)
    [] intensity = "3" -> Value(100)
    [] OTHER -> Unexpected

getActiveOf(current) ==
  IF current.isOn = Absent THEN CommunicationFailure
  ELSE Value(IF current.isOn = "true" THEN ACTIVE ELSE INACTIVE)

getIntensityOfMutant(current) ==
  IF current.fanIntensity = Absent \/ current.isOn = Absent THEN CommunicationFailure
  ELSE fanIntensityToPercentage(current.fanIntensity)

getIntensityOf(current) ==
  IF current.fanIntensity = Absent THEN CommunicationFailure
  ELSE fanIntensityToPercentage(current.fanIntensity)

getSwingModeOf(current) ==
  IF current.isOscillating = Absent THEN CommunicationFailure
  ELSE Value(IF current.isOscillating = "true" THEN SWING_ENABLED ELSE SWING_DISABLED)

isChangedMutant(current, prev) ==
  IF prev = Null THEN TRUE
  ELSE current.isOn # prev.isOn \/ current.fanIntensity # prev.fanIntensity

isChangedConnectedMutant(current, prev) ==
  IF prev = Null THEN TRUE
  ELSE \/ current.isOn # prev.isOn
       \/ current.fanIntensity # prev.fanIntensity
       \/ current.isOscillating # prev.isOscillating
       \/ current.connected # prev.connected

isChangedPresentMutant(current, prev) ==
  IF prev = Null THEN TRUE
  ELSE \/ (prev.isOn # Absent /\ current.isOn # prev.isOn)
       \/ (prev.fanIntensity # Absent /\ current.fanIntensity # prev.fanIntensity)
       \/ (prev.isOscillating # Absent /\ current.isOscillating # prev.isOscillating)

\* poller.poll, lines 58-65
isChanged(current, prev) ==
  IF prev = Null THEN TRUE
  ELSE \/ current.isOn # prev.isOn
       \/ current.fanIntensity # prev.fanIntensity
       \/ current.isOscillating # prev.isOscillating

pollOf(current, prev) == IF isChanged(current, prev) THEN Changed ELSE NoChange

Getters == {"getActive", "getIntensity", "getSwingMode"}

\* what the code after `await newState` returns to its caller
outcomeOf(kind, current, prev) ==
  CASE kind = "getActive" -> getActiveOf(current)
    [] kind = "getIntensity" -> getIntensityOf(current)
    [] kind = "getSwingMode" -> getSwingModeOf(current)
    [] OTHER -> pollOf(current, prev)

\* -------------------------------------------------------- polling tick
\* a characteristic the tick did not call updateCharacteristic for
Untouched == [kind |-> "untouched", val |-> 0]
NoUpdate == [active |-> Untouched, speed |-> Untouched, swing |-> Untouched]

updateCharacteristicsMutant(fanStatus) ==
  [active |-> Value(IF fanStatus.isOn = "true" THEN ACTIVE ELSE INACTIVE),
   speed |-> IF fanStatus.fanIntensity # Absent
             THEN fanIntensityToPercentage(fanStatus.fanIntensity) ELSE Untouched,
   swing |-> IF fanStatus.isOscillating # Absent
             THEN Value(IF fanStatus.isOscillating = "true" THEN SWING_ENABLED ELSE SWING_DISABLED)
             ELSE Untouched]

\* the values handed to service.updateCharacteristic, per characteristic
updateCharacteristics(fanStatus) ==
  [active |-> IF fanStatus.isOn # Absent
              THEN Value(IF fanStatus.isOn = "true" THEN ACTIVE ELSE INACTIVE)
              ELSE Untouched,
   speed |-> IF fanStatus.fanIntensity # Absent
             THEN fanIntensityToPercentage(fanStatus.fanIntensity) ELSE Untouched,
   swing |-> IF fanStatus.isOscillating # Absent
             THEN Value(IF fanStatus.isOscillating = "true" THEN SWING_ENABLED ELSE SWING_DISABLED)
             ELSE Untouched]

\* the setInterval callback after `await this.poller.poll()`; the getters
\* push nothing
pushOf(kind, outcome, current) ==
  IF kind = "poll" /\ outcome = Changed THEN updateCharacteristics(current) ELSE NoUpdate

\* ------------------------------------------------------------------ state
VARIABLES
  initialized,    \* AlexaApi.initialized$: the value ReplaySubject(1) holds
  initCompleted,  \* the init observer has called complete()
  lateCallback,   \* history: the init callback ran again after complete()
  trueEmits,      \* history: emissions of true by initialized$ (2 = more than one)
  emitAfterTrue,  \* history: initialized$ emitted something after a true
  throttle,       \* ticks left of throttleTime(20)'s timer, 0 = not throttling
  inner,          \* switchMap's inner getDeviceStatus: "none", "gate", "query"
  innerTimer,     \* ticks left of the inner's readiness timeout
  innerQ,         \* the query the inner subscription listens to (0 = none)
  pending,        \* status queries the transport has not answered yet
  replay,         \* shareReplay's buffered snapshot, Null when empty
  waiters,        \* firstValueFrom subscribers of fanStatus$, in subscription order
  others,         \* further getter calls subscribed to fanStatus$ (MaxOthers = that many or more)
  previous,       \* poller.previous
  rpc,            \* per read call: "idle", "waiting", "done"
  rkind,          \* per read call: which handler
  rres,           \* per read call: the snapshot `await newState` produced
  rout,           \* per read call: what the handler returned or threw
  rsrc,           \* history: resolved by an "emission" of a parsed snapshot, by the
                  \* "fallback" of catchError, or by a "replay" of the buffer
  rwin,           \* history: "lead" = issued in the current window before any fetch
                  \* completed in it, "late" = issued in it after one did, "no" = neither
  rgate,          \* history: ticks the waiting call has waited while readiness was not true
  wall,           \* history: ticks left of the 20 ms since the last refresh that was let
                  \* through (the throttle timer, had no teardown cancelled it)
  winQueries,     \* history: status queries issued in the current window, which opens with
                  \* a refresh let through 20 ms or more after the previous one (2 = more than one)
  winReset,       \* history: a fetch completed since the current window opened
  transportCalled, \* history: some transport call (query or action) has been made
  spc,            \* per set call: "idle", "gate", "exec", "ok", "failed"
  scmd,           \* per set call: the command object handed to sendDeviceAction
  stimer,         \* per set call: ticks left of its readiness timeout
  scalls,         \* per set call: executeSmarthomeDeviceAction calls made for it
  sreq,           \* history, per set call: the handler invoked and its value
  serr,           \* history, per set call: what the execution callback reported:
                  \* "none" (not called back), "err", "ok"
  rpush,          \* per read call: what the polling tick pushed to the characteristics
  pres,           \* the DeviceQueryResult handed to parseDeviceResponse on its own
  pout,           \* what parseDeviceResponse made of pres
  qold,           \* history: a set command has completed since the status query the
                  \* inner observable listens to was issued
  rord            \* history, per waiting read call: "old" = qold held when the call was
                  \* issued and switchMap has subscribed no newer query since,
                  \* "newer" = qold held and switchMap has subscribed a newer query,
                  \* "none" = qold did not hold (and every call that is not waiting)

gateVars == <<initialized, initCompleted, lateCallback, trueEmits, emitAfterTrue>>
streamVars == <<throttle, inner, innerTimer, innerQ, pending>>
shareVars == <<replay, waiters, others>>
readVars == <<rpc, rkind, rres, rout, rsrc, rwin, rgate, previous, rpush>>
histVars == <<wall, winQueries, winReset>>
setVars == <<spc, scmd, stimer, scalls, sreq, serr>>
parseVars == <<pres, pout>>
orderVars == <<qold, rord>>
vars == <<gateVars, streamVars, shareVars, readVars, histVars, transportCalled, setVars,
          parseVars, orderVars>>

Init ==
  \* constructor: init.subscribe(initialized$) emits false synchronously
  /\ initialized = FALSE /\ initCompleted = FALSE /\ lateCallback = FALSE
  /\ trueEmits = 0 /\ emitAfterTrue = FALSE
  /\ throttle = 0 /\ inner = "none" /\ innerTimer = 0 /\ innerQ = 0 /\ pending = {}
  /\ replay = Null /\ waiters = <<>> /\ others = 0
  /\ previous = Null
  /\ rpc = [r \in Readers |-> "idle"] /\ rkind = [r \in Readers |-> "getActive"]
  /\ rres = [r \in Readers |-> Null] /\ rout = [r \in Readers |-> NoOutcome]
  /\ rsrc = [r \in Readers |-> "none"] /\ rwin = [r \in Readers |-> "no"]
  /\ rgate = [r \in Readers |-> 0]
  /\ wall = 0 /\ winQueries = 0 /\ winReset = FALSE
  /\ transportCalled = FALSE
  /\ spc = [s \in Setters |-> "idle"] /\ scmd = [s \in Setters |-> NoCommand]
  /\ stimer = [s \in Setters |-> 0] /\ scalls = [s \in Setters |-> 0]
  /\ sreq = [s \in Setters |-> NoRequest] /\ serr = [s \in Setters |-> "none"]
  /\ rpush = [r \in Readers |-> NoUpdate]
  /\ pres = NoStatesResult /\ pout = Threw
  /\ qold = FALSE /\ rord = [r \in Readers |-> "none"]

RefCount == Len(waiters) + others

\* the count of queries in a window, kept up to "more than one"
Count(n) == IF n > 2 THEN 2 ELSE n

Dec(n) == IF n > 0 THEN n - 1 ELSE 0

FreshQuery == CHOOSE q \in QueryIds \ pending : \A o \in QueryIds \ pending : q <= o

\* -------------------------------------------------------- readiness gate
PassesGateMutant(v) == TRUE

\* initializedWithTimeout$: filter(initialized => initialized)
PassesGate(v) == v = TRUE

ObserverClosedMutant(completed) == FALSE

\* a completed subscriber ignores next()
ObserverClosed(completed) == completed

\* ---------------------------------------------------------- fanStatus$
ThrottledMutant(t) == FALSE

\* throttleTime(20), leading edge only: a signal inside the window is dropped
Throttled(t) == t > 0

AfterRefCountZeroMutant(current) == current

\* shareReplay({ refCount: true }): with no subscriber left the subject and
\* its buffer are dropped
AfterRefCountZero(current) == Null

RequestRefreshMutant ==
  IF Throttled(throttle) \/ inner = "query"
  THEN UNCHANGED <<streamVars, wall, winQueries, winReset, transportCalled>>
  ELSE /\ throttle' = ThrottleTicks
       /\ IF PassesGate(initialized)
          THEN /\ QueryIds \ pending # {}
               /\ inner' = "query" /\ innerQ' = FreshQuery /\ innerTimer' = 0
               /\ pending' = pending \cup {FreshQuery}
               /\ transportCalled' = TRUE
          ELSE /\ inner' = "gate" /\ innerQ' = 0 /\ innerTimer' = TimeoutTicks
               /\ UNCHANGED <<pending, transportCalled>>
       /\ LET issued == IF PassesGate(initialized) THEN 1 ELSE 0 IN
          /\ wall' = ThrottleTicks
          /\ IF wall = 0
             THEN winQueries' = issued /\ winReset' = FALSE
             ELSE winQueries' = Count(winQueries + issued) /\ UNCHANGED winReset

\* requestedFanUpdate$.next(): throttleTime, then switchMap unsubscribes the
\* running inner observable and subscribes getDeviceStatus anew, which asks
\* the gate and, when it is open, calls querySmarthomeDevices at once
RequestRefresh ==
  IF Throttled(throttle)
  THEN UNCHANGED <<streamVars, wall, winQueries, winReset, transportCalled>>
  ELSE /\ throttle' = ThrottleTicks
       /\ IF PassesGate(initialized)
          THEN /\ QueryIds \ pending # {}
               /\ inner' = "query" /\ innerQ' = FreshQuery /\ innerTimer' = 0
               /\ pending' = pending \cup {FreshQuery}
               /\ transportCalled' = TRUE
          ELSE /\ inner' = "gate" /\ innerQ' = 0 /\ innerTimer' = TimeoutTicks
               /\ UNCHANGED <<pending, transportCalled>>
       /\ LET issued == IF PassesGate(initialized) THEN 1 ELSE 0 IN
          /\ wall' = ThrottleTicks
          /\ IF wall = 0
             THEN winQueries' = issued /\ winReset' = FALSE
             ELSE winQueries' = Count(winQueries + issued) /\ UNCHANGED winReset

\* switchMap has kept the inner observable it had: the refresh of this step
\* was dropped by throttleTime
SameInner == inner' = inner /\ innerQ' = innerQ

\* how a read issued in this step stands to the set commands completed so far
OrderAtIssue ==
  IF replay # Null \/ ~qold THEN "none" ELSE IF SameInner THEN "old" ELSE "newer"

\* a waiting read after a refresh of another call
OrderAfterRefresh(o) == IF rord[o] = "old" /\ ~SameInner THEN "newer" ELSE rord[o]

\* the refresh of this step is let through and opens a new window
OpensWindow == ~Throttled(throttle) /\ wall = 0

\* how a read issued in this step stands to the current window
WindowPlace == IF OpensWindow \/ ~winReset THEN "lead" ELSE "late"

WritesPreviousMutant(kind) == TRUE

\* `this.previous = current` stands in poller.poll alone
WritesPrevious(kind) == kind = "poll"

\* const newState = firstValueFrom(this.fanStatus$);
\* this.requestedFanUpdate$.next();   ... and the code after the await when
\* the subject replays a buffered snapshot to the new subscriber
StatusRead(r, kind) ==
  /\ UNCHANGED parseVars
  /\ rpc[r] # "waiting"
  /\ rkind' = [rkind EXCEPT ![r] = kind]
  /\ rgate' = [rgate EXCEPT ![r] = 0]
  /\ rwin' = [o \in Readers |->
                IF o = r THEN WindowPlace
                ELSE IF OpensWindow THEN "no" ELSE rwin[o]]
  /\ IF replay # Null
     THEN /\ rpc' = [rpc EXCEPT ![r] = "done"]
          /\ rres' = [rres EXCEPT ![r] = replay]
          /\ rout' = [rout EXCEPT ![r] = outcomeOf(kind, replay, previous)]
          /\ rpush' = [rpush EXCEPT ![r] = pushOf(kind, outcomeOf(kind, replay, previous), replay)]
          /\ rsrc' = [rsrc EXCEPT ![r] = "replay"]
          /\ previous' = IF WritesPrevious(kind) THEN replay ELSE previous
          /\ UNCHANGED waiters
     ELSE /\ rpc' = [rpc EXCEPT ![r] = "waiting"]
          /\ rres' = [rres EXCEPT ![r] = Null]
          /\ rout' = [rout EXCEPT ![r] = NoOutcome]
          /\ rpush' = [rpush EXCEPT ![r] = NoUpdate]
          /\ rsrc' = [rsrc EXCEPT ![r] = "none"]
          /\ waiters' = Append(waiters, r)
          /\ UNCHANGED previous
  /\ RequestRefresh
  /\ qold' = (qold /\ SameInner)
  /\ rord' = [o \in Readers |-> IF o = r THEN OrderAtIssue ELSE OrderAfterRefresh(o)]
  /\ UNCHANGED <<gateVars, replay, others, setVars>>

getActive(r) == StatusRead(r, "getActive")
getIntensity(r) == StatusRead(r, "getIntensity")
getSwingMode(r) == StatusRead(r, "getSwingMode")
poll(r) == StatusRead(r, "poll")

\* a getter call of a caller that is not followed individually
otherGet ==
  /\ UNCHANGED parseVars
  /\ others' = IF replay # Null THEN others
               ELSE IF others < MaxOthers THEN others + 1 ELSE others
  /\ rwin' = [o \in Readers |-> IF OpensWindow THEN "no" ELSE rwin[o]]
  /\ RequestRefresh
  /\ qold' = (qold /\ SameInner)
  /\ rord' = [o \in Readers |-> OrderAfterRefresh(o)]
  /\ UNCHANGED <<gateVars, replay, waiters, previous, rpc, rkind, rres, rout, rsrc,
                 rgate, rpush, setVars>>

PrevBeforeMutant(i, current) == previous

\* the snapshot poller.previous holds when the i-th waiter's continuation runs
PrevBefore(i, current) ==
  IF \E j \in 1..(i - 1) : WritesPrevious(rkind[waiters[j]]) THEN current ELSE previous

PositionOf(r) == CHOOSE i \in 1..Len(waiters) : waiters[i] = r

IsWaiter(r) == \E i \in 1..Len(waiters) : waiters[i] = r

\* fanStatus$ emits `current`: every firstValueFrom subscriber resolves and
\* unsubscribes, the reference count reaches zero and the source (throttle
\* timer, inner observable) is torn down; the resumed handlers then run in
\* subscription order
Deliver(current, failed) ==
  /\ rpc' = [r \in Readers |-> IF IsWaiter(r) THEN "done" ELSE rpc[r]]
  /\ rres' = [r \in Readers |-> IF IsWaiter(r) THEN current ELSE rres[r]]
  /\ rout' = [r \in Readers |->
                IF IsWaiter(r)
                THEN outcomeOf(rkind[r], current, PrevBefore(PositionOf(r), current))
                ELSE rout[r]]
  /\ rpush' = [r \in Readers |->
                 IF IsWaiter(r)
                 THEN pushOf(rkind[r],
                             outcomeOf(rkind[r], current, PrevBefore(PositionOf(r), current)),
                             current)
                 ELSE rpush[r]]
  /\ rsrc' = [r \in Readers |->
                IF IsWaiter(r) THEN (IF failed THEN "fallback" ELSE "emission") ELSE rsrc[r]]
  /\ previous' = IF \E r \in Readers : IsWaiter(r) /\ WritesPrevious(rkind[r])
                 THEN current ELSE previous
  /\ waiters' = <<>> /\ others' = 0
  /\ replay' = AfterRefCountZero(current)
  /\ throttle' = 0 /\ inner' = "none" /\ innerTimer' = 0 /\ innerQ' = 0
  /\ winReset' = TRUE
  /\ rgate' = [r \in Readers |-> IF IsWaiter(r) THEN 0 ELSE rgate[r]]
  /\ UNCHANGED <<rkind, rwin, wall, winQueries>>

ListeningMutant(q) == inner = "query"

\* switchMap's inner subscription is the one of query q
Listening(q) == inner = "query" /\ innerQ = q

\* the querySmarthomeDevices callback fires for query q; an unsubscribed
\* inner observable ignores it
Respond(q, res) ==
  /\ UNCHANGED parseVars
  /\ qold' = (qold /\ ~Listening(q))
  /\ rord' = [r \in Readers |-> IF Listening(q) /\ IsWaiter(r) THEN "none" ELSE rord[r]]
  /\ q \in pending
  /\ pending' = pending \ {q}
  /\ IF Listening(q)
     THEN Deliver(fanStatusOf(getDeviceStatus(res)), ~getDeviceStatus(res).ok)
     ELSE UNCHANGED <<throttle, inner, innerTimer, innerQ, shareVars, readVars, histVars>>
  /\ UNCHANGED <<gateVars, transportCalled, setVars>>

\* timeout(apiConfig.timeout) of the inner getDeviceStatus expires
GateTimeout ==
  /\ UNCHANGED parseVars
  /\ qold' = FALSE
  /\ rord' = [r \in Readers |-> IF IsWaiter(r) THEN "none" ELSE rord[r]]
  /\ inner = "gate" /\ innerTimer = 0
  /\ Deliver(fanStatusOf(Threw), TRUE)
  /\ UNCHANGED <<gateVars, pending, transportCalled, setVars>>

\* the callback handed to remote.init runs; the transport may run it again
\* after a failure and again after a success.  next(true) reaches every
\* subscriber of initializedWithTimeout$, which then calls the transport.
InitCallback(err) ==
  /\ UNCHANGED parseVars
  /\ UNCHANGED orderVars
  /\ lateCallback' = (lateCallback \/ initCompleted)
  /\ IF ObserverClosed(initCompleted)
     THEN UNCHANGED <<initialized, initCompleted, trueEmits, emitAfterTrue, streamVars,
                      winQueries, transportCalled, setVars>>
     ELSE LET v == ~err
              released == {s \in Setters : spc[s] = "gate"}
          IN
          /\ initialized' = v
          /\ initCompleted' = v
          /\ trueEmits' = IF v /\ trueEmits < 2 THEN trueEmits + 1 ELSE trueEmits
          /\ emitAfterTrue' = (emitAfterTrue \/ trueEmits > 0)
          /\ IF PassesGate(v)
             THEN /\ IF inner = "gate"
                     THEN /\ inner' = "query" /\ innerQ' = FreshQuery /\ innerTimer' = 0
                          /\ pending' = pending \cup {FreshQuery}
                          /\ winQueries' = Count(winQueries + 1)
                     ELSE UNCHANGED <<inner, innerQ, innerTimer, pending, winQueries>>
                  /\ spc' = [s \in Setters |-> IF s \in released THEN "exec" ELSE spc[s]]
                  /\ scalls' = [s \in Setters |-> IF s \in released THEN scalls[s] + 1 ELSE scalls[s]]
                  /\ transportCalled' = (transportCalled \/ inner = "gate" \/ released # {})
                  /\ UNCHANGED <<throttle, scmd, stimer, sreq, serr>>
             ELSE UNCHANGED <<streamVars, winQueries, transportCalled, setVars>>
  /\ UNCHANGED <<shareVars, readVars, wall, winReset>>

\* the callback runs while the init observer is still open
InitAttempt(err) == ~initCompleted /\ InitCallback(err)

\* --------------------------------------------------------------- setters
CallsForMutant(s, command) ==
  IF \E o \in Setters \ {s} : spc[o] = "exec" /\ scmd[o] = command THEN 0 ELSE 1

\* sendDeviceAction builds a new Observable around executeSmarthomeDeviceAction
\* for every subscription: one transport call per set call, whatever else is
\* in flight
CallsFor(s, command) == 1

\* firstValueFrom(sendDeviceAction(controlId, command))
SendDeviceAction(s, command) ==
  /\ scmd' = [scmd EXCEPT ![s] = command]
  /\ serr' = [serr EXCEPT ![s] = "none"]
  /\ IF PassesGate(initialized)
     THEN /\ spc' = [spc EXCEPT ![s] = "exec"]
          /\ scalls' = [scalls EXCEPT ![s] = CallsFor(s, command)]
          /\ stimer' = [stimer EXCEPT ![s] = 0]
          /\ transportCalled' = TRUE
     ELSE /\ spc' = [spc EXCEPT ![s] = "gate"]
          /\ scalls' = [scalls EXCEPT ![s] = 0]
          /\ stimer' = [stimer EXCEPT ![s] = TimeoutTicks]
          /\ UNCHANGED transportCalled

SetIdle(s) == spc[s] \notin {"gate", "exec"}

setActive(s, value) ==
  /\ UNCHANGED parseVars
  /\ UNCHANGED orderVars
  /\ SetIdle(s)
  /\ sreq' = [sreq EXCEPT ![s] = Request("setActive", value)]
  /\ SendDeviceAction(s, FanPowerToggleCommand(value = ACTIVE))
  /\ UNCHANGED <<gateVars, streamVars, shareVars, readVars, histVars>>

Percentages == {0, 25, 26, 100}

IgnoresZeroMutant(value) == FALSE

\* if (value === 0) { ...; return; }
IgnoresZero(value) == value = 0

setIntensity(s, value) ==
  /\ UNCHANGED parseVars
  /\ UNCHANGED orderVars
  /\ SetIdle(s)
  /\ sreq' = [sreq EXCEPT ![s] = Request("setIntensity", value)]
  /\ IF IgnoresZero(value)
     THEN /\ spc' = [spc EXCEPT ![s] = "ok"]
          /\ scmd' = [scmd EXCEPT ![s] = NoCommand]
          /\ scalls' = [scalls EXCEPT ![s] = 0]
          /\ serr' = [serr EXCEPT ![s] = "none"]
          /\ UNCHANGED <<stimer, transportCalled>>
     ELSE SendDeviceAction(s, FanIntensityChangeCommand(toFixed0(intensityOf(value))))
  /\ UNCHANGED <<gateVars, streamVars, shareVars, readVars, histVars>>

ZeroCommandV1Mutant == FanIntensityChangeCommand("0")

\* return this.setOn(false): new FanPowerToggleCommand(false)
ZeroCommandV1 == FanPowerToggleCommand(FALSE)

\* setIntensity of the earlier accessory variants: 0 is handed to setOn(false)
setIntensityV1(s, value) ==
  /\ UNCHANGED parseVars
  /\ UNCHANGED orderVars
  /\ SetIdle(s)
  /\ sreq' = [sreq EXCEPT ![s] = Request("setIntensityV1", value)]
  /\ IF value = 0
     THEN SendDeviceAction(s, ZeroCommandV1)
     ELSE SendDeviceAction(s, FanIntensityChangeCommand(intensityV1(value)))
  /\ UNCHANGED <<gateVars, streamVars, shareVars, readVars, histVars>>

setSwingMode(s, value) ==
  /\ UNCHANGED parseVars
  /\ UNCHANGED orderVars
  /\ SetIdle(s)
  /\ sreq' = [sreq EXCEPT ![s] = Request("setSwingMode", value)]
  /\ SendDeviceAction(s, FanOscillationToggleCommand(value = SWING_ENABLED))
  /\ UNCHANGED <<gateVars, streamVars, shareVars, readVars, histVars>>

\* timeout(apiConfig.timeout) of a sendDeviceAction expires: firstValueFrom rejects
SetTimeout(s) ==
  /\ UNCHANGED parseVars
  /\ UNCHANGED orderVars
  /\ spc[s] = "gate" /\ stimer[s] = 0
  /\ spc' = [spc EXCEPT ![s] = "failed"]
  /\ UNCHANGED <<gateVars, streamVars, shareVars, readVars, histVars, transportCalled,
                 scmd, stimer, scalls, sreq, serr>>

SetOutcomeMutant(err) == "ok"

\* observer.error(err) rejects firstValueFrom; observer.next(result) resolves it
SetOutcome(err) == IF err THEN "failed" ELSE "ok"

\* the executeSmarthomeDeviceAction callback fires
ExecRespond(s, err) ==
  /\ UNCHANGED parseVars
  /\ qold' = (qold \/ (~err /\ inner = "query"))
  /\ UNCHANGED rord
  /\ spc[s] = "exec"
  /\ spc' = [spc EXCEPT ![s] = SetOutcome(err)]
  /\ serr' = [serr EXCEPT ![s] = IF err THEN "err" ELSE "ok"]
  /\ UNCHANGED <<gateVars, streamVars, shareVars, readVars, histVars, transportCalled,
                 scmd, stimer, scalls, sreq>>

\* ------------------------------------------------------------------ time
\* one tick passes; a timer that has run out fires before time moves on
Tick ==
  /\ UNCHANGED parseVars
  /\ UNCHANGED orderVars
  /\ ~(inner = "gate" /\ innerTimer = 0)
  /\ \A s \in Setters : ~(spc[s] = "gate" /\ stimer[s] = 0)
  /\ throttle' = Dec(throttle)
  /\ wall' = Dec(wall)
  /\ innerTimer' = IF inner = "gate" THEN Dec(innerTimer) ELSE innerTimer
  /\ stimer' = [s \in Setters |-> IF spc[s] = "gate" THEN Dec(stimer[s]) ELSE stimer[s]]
  /\ rgate' = [r \in Readers |->
                 IF rpc[r] = "waiting" /\ ~initialized /\ rgate[r] <= TimeoutTicks
                 THEN rgate[r] + 1 ELSE rgate[r]]
  /\ UNCHANGED <<gateVars, inner, innerQ, pending, shareVars, previous, rpc, rkind, rres,
                 rout, rsrc, rwin, winQueries, winReset, transportCalled,
                 spc, scmd, scalls, sreq, serr, rpush>>

\* the status side: reads, the shared stream, the gate and time
Next ==
  \/ \E r \in Readers : getActive(r)
  \/ \E r \in Readers : getIntensity(r)
  \/ \E r \in Readers : getSwingMode(r)
  \/ \E r \in Readers : poll(r)
  \/ otherGet
  \/ \E q \in QueryIds, res \in Responses : Respond(q, res)
  \/ GateTimeout
  \/ \E err \in BOOLEAN : InitAttempt(err)
  \/ Tick

Spec == Init /\ [][Next]_vars

\* the command side next to one kind of read: setters, the gate (with the
\* callback running again after a success) and time
GateResponses == {TransportError, QueryResult(<<DeviceOn>>)}

GateNext ==
  \/ \E r \in Readers : getActive(r)
  \/ otherGet
  \/ \E q \in QueryIds, res \in GateResponses : Respond(q, res)
  \/ GateTimeout
  \/ \E err \in BOOLEAN : InitCallback(err)
  \/ \E s \in GateSetters, value \in {ACTIVE, INACTIVE} : setActive(s, value)
  \/ \E s \in GateSetters, value \in Percentages : setIntensity(s, value)
  \/ \E s \in GateSetters, value \in {SWING_ENABLED, SWING_DISABLED} : setSwingMode(s, value)
  \/ \E s \in GateSetters : SetTimeout(s)
  \/ \E s \in GateSetters, err \in BOOLEAN : ExecRespond(s, err)
  \/ Tick

GateSpec == Init /\ [][GateNext]_vars

\* the command side alone: concurrent set calls of every handler (the
\* setIntensity of the final accessory and that of the earlier variants), over
\* the percentages at the edges of the four intensity bands
CmdPercentages == {0, 1, 25, 26, 50, 51, 75, 76, 100}

CmdNext ==
  \/ \E s \in Setters, value \in {ACTIVE, INACTIVE} : setActive(s, value)
  \/ \E s \in Setters, value \in CmdPercentages : setIntensity(s, value)
  \/ \E s \in Setters, value \in CmdPercentages : setIntensityV1(s, value)
  \/ \E s \in Setters, value \in {SWING_ENABLED, SWING_DISABLED} : setSwingMode(s, value)
  \/ \E s \in Setters : SetTimeout(s)
  \/ \E s \in Setters, err \in BOOLEAN : ExecRespond(s, err)
  \/ \E err \in BOOLEAN : InitAttempt(err)
  \/ Tick

CmdSpec == Init /\ [][CmdNext]_vars

\* setIntensity of the final accessory with percentages beyond the
\* characteristic's range as well
WidePercentages == CmdPercentages \cup {101, 125, 126}

WideNext ==
  \/ \E s \in Setters, value \in WidePercentages : setIntensity(s, value)
  \/ \E s \in Setters : SetTimeout(s)
  \/ \E s \in Setters, err \in BOOLEAN : ExecRespond(s, err)
  \/ \E err \in BOOLEAN : InitAttempt(err)
  \/ Tick

WideSpec == Init /\ [][WideNext]_vars

\* the poller next to a getter and a setter
FrameResponses == {TransportError, QueryResult(<<DeviceOn>>), QueryResult(<<DeviceOff>>)}

FrameNext ==
  \/ \E r \in Readers : poll(r)
  \/ \E r \in Readers : getActive(r)
  \/ \E q \in QueryIds, res \in FrameResponses : Respond(q, res)
  \/ GateTimeout
  \/ \E err \in BOOLEAN : InitAttempt(err)
  \/ \E s \in GateSetters : setActive(s, ACTIVE)
  \/ \E s \in GateSetters : SetTimeout(s)
  \/ \E s \in GateSetters, err \in BOOLEAN : ExecRespond(s, err)
  \/ Tick

FrameSpec == Init /\ [][FrameNext]_vars

\* the poller alone, over device states that differ in one field at a time
DeviceFaster ==
  <<Cap("Alexa.EndpointHealth", Absent, "OK"), Cap("Alexa.PowerController", Absent, "ON"),
    Cap("Alexa.ModeController", "1", "3"), Cap("Alexa.ToggleController", "2", "OFF")>>
DeviceSwinging ==
  <<Cap("Alexa.EndpointHealth", Absent, "OK"), Cap("Alexa.PowerController", Absent, "ON"),
    Cap("Alexa.ModeController", "1", "2"), Cap("Alexa.ToggleController", "2", "ON")>>
DeviceOnUnhealthy ==
  <<Cap("Alexa.EndpointHealth", Absent, "UNREACHABLE"), Cap("Alexa.PowerController", Absent, "ON"),
    Cap("Alexa.ModeController", "1", "2"), Cap("Alexa.ToggleController", "2", "OFF")>>
DeviceOnTimer ==
  <<Cap("Alexa.EndpointHealth", Absent, "OK"), Cap("Alexa.PowerController", Absent, "ON"),
    Cap("Alexa.ModeController", "1", "2"), Cap("Alexa.ModeController", "3", "1"),
    Cap("Alexa.ToggleController", "2", "OFF")>>

DeviceSwingOnly == <<Cap("Alexa.ToggleController", "2", "ON")>>

PollResponses ==
  {TransportError, QueryResult(<<>>), QueryResult(<<DeviceBadIntensity>>),
   QueryResult(<<DeviceBadJson>>), QueryResult(<<DeviceOn>>), QueryResult(<<DeviceOff>>),
   QueryResult(<<DeviceFaster>>), QueryResult(<<DeviceSwinging>>),
   QueryResult(<<DeviceOnUnhealthy>>), QueryResult(<<DeviceOnTimer>>),
   QueryResult(<<DeviceSwingOnly>>)}

PollNext ==
  \/ \E r \in Readers : poll(r)
  \/ \E q \in QueryIds, res \in PollResponses : Respond(q, res)
  \/ GateTimeout
  \/ \E err \in BOOLEAN : InitAttempt(err)
  \/ Tick

PollSpec == Init /\ [][PollNext]_vars

\* the getters alone, over snapshots with each field present and absent and
\* with every intensity level
DeviceLevel(L) == <<Cap("Alexa.ModeController", "1", L)>>

GetResponses ==
  {TransportError, QueryResult(<<DeviceOn>>), QueryResult(<<DeviceOff>>),
   QueryResult(<<DeviceSwingOnly>>)}
    \cup {QueryResult(<<DeviceLevel(L)>>) : L \in IntensityValues}

GetNext ==
  \/ \E r \in Readers : getActive(r)
  \/ \E r \in Readers : getIntensity(r)
  \/ \E r \in Readers : getSwingMode(r)
  \/ \E q \in QueryIds, res \in GetResponses : Respond(q, res)
  \/ GateTimeout
  \/ \E err \in BOOLEAN : InitAttempt(err)
  \/ Tick

GetSpec == Init /\ [][GetNext]_vars

\* the parser on its own: parseDeviceResponse applied to a query result
ParseDeviceResponse(res) ==
  /\ pres' = res
  /\ pout' = parseDeviceResponse(res)
  /\ UNCHANGED <<gateVars, streamVars, shareVars, readVars, histVars, transportCalled, setVars,
                 orderVars>>

\* capability entries: every namespace with a recognized value, a value the
\* parser does not know, no value, and an instance the parser does not know
CapEntries ==
  {Cap("Alexa.EndpointHealth", Absent, "OK"), Cap("Alexa.EndpointHealth", Absent, Absent),
   Cap("Alexa.PowerController", Absent, "ON"), Cap("Alexa.PowerController", Absent, "OFF"),
   Cap("Alexa.PowerController", Absent, Absent), Cap("Alexa.PowerController", Absent, "BANANA"),
   Cap("Alexa.ModeController", "1", "0"), Cap("Alexa.ModeController", "1", "3"),
   Cap("Alexa.ModeController", "1", "9"), Cap("Alexa.ModeController", "1", Absent),
   Cap("Alexa.ModeController", "3", "4"), Cap("Alexa.ModeController", "3", "9"),
   Cap("Alexa.ModeController", "2", "1"),
   Cap("Alexa.ToggleController", "2", "ON"), Cap("Alexa.ToggleController", "2", "OFF"),
   Cap("Alexa.ToggleController", "1", "ON"), Cap("Alexa.ToggleController", "2", Absent),
   Cap("Alexa.Other", Absent, "ON"), BadJson}

CapLists == UNION {[1..n -> CapEntries] : n \in 0..MaxCaps}

ParseInputs ==
  {QueryResult(<<caps>>) : caps \in CapLists}
    \cup {QueryResult(<<>>), NoStatesResult, QueryResult(<<DeviceOff, DeviceOn>>)}

ParseNext == \E res \in ParseInputs : ParseDeviceResponse(res)

ParseSpec == Init /\ [][ParseNext]_vars

\* the stream under fair scheduling, with one kind of getter
FairNext ==
  \/ \E r \in Readers : getActive(r)
  \/ otherGet
  \/ \E q \in QueryIds, res \in GateResponses : Respond(q, res)
  \/ GateTimeout
  \/ \E err \in BOOLEAN : InitAttempt(err)
  \/ Tick

\* the transport answers every call it received, timers fire, time passes
Fairness ==
  /\ \A q \in QueryIds : WF_vars(\E res \in GateResponses : Respond(q, res))
  /\ WF_vars(GateTimeout)
  /\ WF_vars(Tick)

FairSpec == Init /\ [][FairNext]_vars /\ Fairness

TypeOK ==
  /\ initialized \in BOOLEAN /\ throttle \in 0..ThrottleTicks /\ wall \in 0..ThrottleTicks
  /\ inner \in {"none", "gate", "query"} /\ pending \subseteq QueryIds
  /\ others \in 0..MaxOthers /\ winQueries \in 0..2

\* ================================================================ claims
\* a tracked read call is issued in this step
ReadIssued(r) == rpc[r] # "waiting" /\ rpc'[r] = "waiting"
\* some read call (tracked or not) is issued in this step
ReadStep == (\E r \in Readers : ReadIssued(r)) \/ others' > others
\* a tracked read call is resolved in this step
Resolved(r) == rpc[r] = "waiting" /\ rpc'[r] = "done"
\* the transport receives a status query in this step
NewQuery == pending' \ pending # {}

\* C1 as stated: the reads issued within one 20 ms window are served by
\* exactly one upstream query and all resolve to the identical snapshot.
C1_Original ==
  \A r1, r2 \in Readers :
    (rwin[r1] # "no" /\ rwin[r2] # "no" /\ rpc[r1] = "done" /\ rpc[r2] = "done")
      => (rres[r1] = rres[r2] /\ winQueries = 1)

\* C1, amended: the reads issued within one window before any fetch completes
\* in it are all released in the same step with the identical snapshot, and
\* until then the window has seen exactly one upstream query when readiness
\* is true and none when the readiness timeout released them.
C1_Coalesced ==
  [][\A r \in Readers :
       Resolved(r) =>
         /\ \A o \in Readers : rpc[o] = "waiting" => (rpc'[o] = "done" /\ rres'[o] = rres'[r])
         /\ rwin[r] = "lead" => winQueries = (IF initialized THEN 1 ELSE 0)]_vars

C1_Witness ==
  /\ rpc[1] = "done" /\ rpc[2] = "done"
  /\ rwin[1] = "lead" /\ rwin[2] = "lead"
  /\ rkind[1] # rkind[2]
  /\ rres[1] = rres[2] /\ rres[1].isOn = "true"
  /\ winQueries = 1

\* C2 as stated: at most one upstream status query per throttle window, in
\* every interleaving of requests, fetch completions and window expiry.
C2_Original == winQueries <= 1

\* C2, amended: a further query inside a window that already saw one is only
\* issued when a completed fetch has released every subscriber (which tears
\* the throttle timer down); while a read stays subscribed there is at most
\* one query per window.
C2_OnePerWindowWhileSubscribed ==
  [][(NewQuery /\ wall > 0 /\ winQueries >= 1) => (RefCount = 0 /\ winReset)]_vars

C2_Witness ==
  /\ RefCount >= 3 /\ throttle > 0 /\ inner = "query"
  /\ winQueries = 1 /\ Cardinality(pending) = 1

C4_NeverStale ==
  /\ replay = Null
  /\ \A r \in Readers : rpc[r] = "done" => rsrc[r] \in {"emission", "fallback"}

C4_Witness ==
  /\ rpc[1] = "done" /\ rpc[2] = "done"
  /\ rsrc[1] = "emission" /\ rsrc[2] = "emission"
  /\ rwin[1] = "lead" /\ rwin[2] = "late"
  /\ rres[1] # rres[2]

\* C5: when the status query fails, every waiting read resolves with
\* { connected: false } and nothing else, and the stream is left with no
\* subscriber, no throttle timer and no inner observable, so that the next
\* read starts a new fetch.
C5_DegradedOnFailure ==
  [][/\ \A r \in Readers :
          (Resolved(r) /\ rsrc'[r] = "fallback") =>
            /\ rres'[r] = [connected |-> "false", isOn |-> Absent, fanIntensity |-> Absent,
                           isOscillating |-> Absent, shutdownTimer |-> Absent]
            /\ \A o \in Readers : rpc'[o] # "waiting"
            /\ RefCount' = 0 /\ throttle' = 0 /\ inner' = "none" /\ replay' = Null
     /\ (ReadStep /\ RefCount = 0) => inner' # "none"]_vars

C5_Witness ==
  /\ rpc[1] = "done" /\ rsrc[1] = "fallback" /\ rres[1].connected = "false"
  /\ rpc[2] = "waiting" /\ inner = "query" /\ rwin[2] = "late"

\* C6 as stated: with a transport that answers every query and a gate that
\* opens or times out, every read that is waiting is eventually resolved,
\* whatever further refresh requests arrive.
C6_Claim == \A r \in Readers : (rpc[r] = "waiting") ~> (rpc[r] = "done")

\* C7: no transport call (status query or action execution) is made unless
\* initialized$ has emitted true; an operation started earlier waits, and a
\* false value releases nobody.
C7_NoCallBeforeReady ==
  (\/ transportCalled
   \/ pending # {}
   \/ inner = "query"
   \/ \E s \in Setters : spc[s] = "exec" \/ scalls[s] > 0)
    => (initialized /\ trueEmits >= 1)

\* a set call that waited one tick at the closed gate and was then released
C7_Witness ==
  \E s \in Setters :
    /\ spc[s] = "exec" /\ stimer[s] = TimeoutTicks - 1 /\ scalls[s] = 1
    /\ initialized /\ transportCalled

\* C8 as stated: a get or set that has waited for readiness for the whole
\* timeout is no longer waiting (it has failed), and has called nothing.
C8_Claim ==
  /\ \A r \in Readers : rpc[r] = "waiting" => rgate[r] <= TimeoutTicks
  /\ \A r \in Readers :
       (rpc[r] = "done" /\ rsrc[r] = "fallback" /\ rkind[r] \in Getters)
         => rout[r] = CommunicationFailure
  /\ \A s \in Setters : spc[s] = "gate" => (scalls[s] = 0 /\ stimer[s] \in 0..TimeoutTicks)

\* C9: initialized$ emits true at most once and nothing after it, and once it
\* has, no operation is left waiting at the gate.
C9_ReadyOnce ==
  /\ trueEmits <= 1 /\ ~emitAfterTrue
  /\ trueEmits = 1 =>
       /\ initialized /\ initCompleted
       /\ inner # "gate"
       /\ \A s \in Setters : spc[s] # "gate"

\* the callback has run again after the success, and a set call issued at the
\* open gate went straight to the transport
C9_Witness ==
  /\ lateCallback /\ trueEmits = 1
  /\ \E s \in Setters : spc[s] = "exec" /\ stimer[s] = 0

FieldsDiffer(a, b) ==
  a.isOn # b.isOn \/ a.fanIntensity # b.fanIntensity \/ a.isOscillating # b.isOscillating

\* C10: a poll returns its snapshot exactly when there was no previous poll
\* snapshot or isOn, fanIntensity or isOscillating differs from the snapshot
\* of the poll before it, and null otherwise; previous is the last poll's
\* snapshot.
C10_PollReportsChange ==
  [][/\ \A r \in Readers :
          (Resolved(r) /\ rkind[r] = "poll") =>
            LET prev == IF \E o \in Readers : /\ IsWaiter(o) /\ rkind[o] = "poll"
                                              /\ PositionOf(o) < PositionOf(r)
                        THEN rres'[r] ELSE previous
            IN /\ rout'[r] \in {Changed, NoChange}
               /\ (rout'[r] = Changed) <=> (prev = Null \/ FieldsDiffer(rres'[r], prev))
               /\ previous' = rres'[r]
     /\ (\A r \in Readers : ~(Resolved(r) /\ rkind[r] = "poll")) => previous' = previous]_vars

\* two successive polls over an unchanged device: changed, then null
C10_Witness ==
  /\ rpc[1] = "done" /\ rkind[1] = "poll" /\ rout[1] = Changed /\ rwin[1] = "lead"
  /\ rpc[2] = "done" /\ rkind[2] = "poll" /\ rout[2] = NoChange /\ rwin[2] = "late"
  /\ rres[1] = rres[2] /\ rres[2].isOscillating = "false" /\ previous = rres[2]

\* the snapshots the parser produces for the answers of the poller's runs
PollSnapshots ==
  {getDeviceStatus(res).status : res \in {x \in PollResponses : getDeviceStatus(x).ok}}

\* C11: a poll resolved after a failed query gets { connected: false }; a poll
\* resolved by an answered query gets the parsed snapshot, whatever failed
\* before; and when the poll before it observed the degraded snapshot and the
\* parsed one has isOn, fanIntensity or isOscillating present, poll() returns
\* it as changed and remembers it.
C11_FailThenSucceed ==
  [][\A r \in Readers :
       (Resolved(r) /\ rkind[r] = "poll") =>
         /\ rsrc'[r] = "fallback" =>
              rres'[r] = [connected |-> "false", isOn |-> Absent, fanIntensity |-> Absent,
                          isOscillating |-> Absent, shutdownTimer |-> Absent]
         /\ rsrc'[r] = "emission" => rres'[r] \in PollSnapshots
         /\ ( /\ rsrc'[r] = "emission"
              /\ PrevBefore(PositionOf(r), rres'[r]) =
                   [connected |-> "false", isOn |-> Absent, fanIntensity |-> Absent,
                    isOscillating |-> Absent, shutdownTimer |-> Absent]
              /\ \/ rres'[r].isOn # Absent
                 \/ rres'[r].fanIntensity # Absent
                 \/ rres'[r].isOscillating # Absent )
              => (rout'[r] = Changed /\ previous' = rres'[r])]_vars

\* one poll observed the degraded snapshot, the next one a snapshot with only
\* isOscillating present, and reported it as changed
C11_Witness ==
  /\ rpc[1] = "done" /\ rkind[1] = "poll" /\ rsrc[1] = "fallback"
  /\ rres[1].connected = "false" /\ rres[1].isOn = Absent
  /\ rpc[2] = "done" /\ rkind[2] = "poll" /\ rsrc[2] = "emission"
  /\ rres[2].isOn = Absent /\ rres[2].isOscillating = "true"
  /\ rout[2] = Changed /\ previous = rres[2]

\* C12: set calls are never coalesced: every set call that got past the
\* readiness gate (except the ignored setIntensity(0)) has made exactly one
\* executeSmarthomeDeviceAction call of its own, also when an identical
\* command of another call is in flight; a call still at the gate, or timed
\* out there, has made none.
C12_OneCallPerSet ==
  \A s \in Setters :
    /\ (spc[s] \in {"exec", "ok"} /\ sreq[s] # Request("setIntensity", 0)) => scalls[s] = 1
    /\ spc[s] = "gate" => scalls[s] = 0
    /\ spc[s] = "failed" => scalls[s] = (IF serr[s] = "err" THEN 1 ELSE 0)

C12_Witness ==
  /\ initialized
  /\ spc[1] = "exec" /\ spc[2] = "exec"
  /\ sreq[1] = sreq[2] /\ scmd[1] = scmd[2] /\ sreq[1].op = "setActive"
  /\ scalls[1] = 1 /\ scalls[2] = 1

\* C13: when the execution callback reports an error, the set call fails to
\* its caller and exactly one execution call was made for it.
C13_FailureNotRetried ==
  \A s \in Setters : serr[s] = "err" => (spc[s] = "failed" /\ scalls[s] = 1)

C13_Witness ==
  /\ serr[1] = "err" /\ spc[1] = "failed" /\ sreq[1].op = "setSwingMode"
  /\ serr[2] = "ok" /\ spc[2] = "ok"

\* C14: the command object handed to the transport follows the wire table:
\* power -> turnOn / turnOff with no instance and no mode; intensity level L
\* -> setModeValue, instance "1", mode L as a string; oscillation ->
\* turnOnToggle / turnOffToggle, instance "2", no mode.
C14_WireTable ==
  /\ FanPowerToggleCommand(TRUE) = [action |-> "turnOn", instance |-> Absent, mode |-> Absent]
  /\ FanPowerToggleCommand(FALSE) = [action |-> "turnOff", instance |-> Absent, mode |-> Absent]
  /\ \A L \in 0..3 :
       FanIntensityChangeCommand(toFixed0(L)) =
         [action |-> "setModeValue", instance |-> "1", mode |-> <<"0", "1", "2", "3">>[L + 1]]
  /\ FanOscillationToggleCommand(TRUE) =
       [action |-> "turnOnToggle", instance |-> "2", mode |-> Absent]
  /\ FanOscillationToggleCommand(FALSE) =
       [action |-> "turnOffToggle", instance |-> "2", mode |-> Absent]
  /\ \A s \in Setters :
       /\ sreq[s].op = "setActive" =>
            scmd[s] = [action |-> IF sreq[s].value = ACTIVE THEN "turnOn" ELSE "turnOff",
                       instance |-> Absent, mode |-> Absent]
       /\ sreq[s].op = "setSwingMode" =>
            scmd[s] = [action |-> IF sreq[s].value = SWING_ENABLED
                                  THEN "turnOnToggle" ELSE "turnOffToggle",
                       instance |-> "2", mode |-> Absent]
       /\ (sreq[s].op \in {"setIntensity", "setIntensityV1"} /\ sreq[s].value > 0) =>
            /\ scmd[s].action = "setModeValue" /\ scmd[s].instance = "1"
            /\ scmd[s].mode \in {"0", "1", "2", "3"}

C14_Witness ==
  /\ spc[1] = "exec" /\ sreq[1] = Request("setSwingMode", SWING_ENABLED)
  /\ scmd[1].action = "turnOnToggle" /\ scmd[1].instance = "2"
  /\ spc[2] = "exec" /\ sreq[2] = Request("setIntensity", 100)
  /\ scmd[2].mode = "3"

\* the level the bands 1..25, 26..50, 51..75, 76..100 stand for
BandLevel(p) ==
  IF p \in 1..25 THEN "0" ELSE IF p \in 26..50 THEN "1"
  ELSE IF p \in 51..75 THEN "2" ELSE "3"

\* C15: for every integer percentage 1..100 the level computed is the one of
\* its band, and a setIntensity call with such a percentage hands over one
\* IntensityChange command with that level and makes exactly one execution
\* call once past the gate.
C15_Quantization ==
  /\ \A p \in 1..100 : toFixed0(intensityOf(p)) = BandLevel(p)
  /\ \A p \in 1..100 : intensityV1(p) = BandLevel(p)
  /\ \A s \in Setters :
       (sreq[s].op \in {"setIntensity", "setIntensityV1"} /\ sreq[s].value \in 1..100) =>
         /\ scmd[s] = [action |-> "setModeValue", instance |-> "1",
                       mode |-> BandLevel(sreq[s].value)]
         /\ spc[s] \in {"exec", "ok"} => scalls[s] = 1

C15_Witness ==
  /\ sreq[1] = Request("setIntensity", 25) /\ scmd[1].mode = "0" /\ spc[1] = "ok"
  /\ sreq[2] = Request("setIntensity", 26) /\ scmd[2].mode = "1" /\ spc[2] = "ok"
  /\ scalls[1] = 1 /\ scalls[2] = 1

\* C16 as stated: in the final accessory (cache and poller) setIntensity(0)
\* executes turnOff upstream once the gate is open.
C16_Original ==
  \A s \in Setters :
    (sreq[s] = Request("setIntensity", 0) /\ initialized)
      => (scmd[s].action = "turnOff" /\ scalls[s] = 1)

\* C16, amended: setIntensity(0) executes turnOff (one call, once past the
\* gate) only in the earlier accessory variants; in the final accessory it
\* hands over no command and makes no call; in no variant does percentage 0
\* produce a setModeValue command.
C16_ZeroByVariant ==
  \A s \in Setters :
    /\ sreq[s] = Request("setIntensityV1", 0) =>
         /\ scmd[s] = [action |-> "turnOff", instance |-> Absent, mode |-> Absent]
         /\ spc[s] \in {"exec", "ok"} => scalls[s] = 1
    /\ sreq[s] = Request("setIntensity", 0) =>
         (scmd[s].action \notin {"turnOff", "setModeValue"} /\ scalls[s] = 0)

C16_Witness ==
  /\ initialized
  /\ sreq[1] = Request("setIntensityV1", 0) /\ spc[1] = "ok" /\ scmd[1].action = "turnOff"
  /\ sreq[2] = Request("setIntensity", 0) /\ spc[2] = "ok" /\ scmd[2].action = "none"

\* C17: in the final accessory setIntensity(0) completes at once and
\* successfully, whether or not the gate is open, with no command handed
\* over, no execution call and no callback.
C17_ZeroIgnored ==
  \A s \in Setters :
    sreq[s] = Request("setIntensity", 0) =>
      (spc[s] = "ok" /\ scmd[s] = NoCommand /\ scalls[s] = 0 /\ serr[s] = "none")

C17_Witness ==
  /\ ~initialized /\ ~transportCalled
  /\ sreq[1] = Request("setIntensity", 0) /\ spc[1] = "ok" /\ scalls[1] = 0

\* C18: what a getter returns depends on one field of the snapshot its read
\* resolved to: getActive on isOn, getIntensity on fanIntensity (25, 50, 75,
\* 100 for levels 0..3, whatever isOn is), getSwingMode on isOscillating; it
\* fails with a service-communication failure exactly when that field is
\* absent.
C18_GetterOfOneField ==
  \A r \in Readers :
    rpc[r] = "done" =>
      /\ rkind[r] = "getActive" =>
           rout[r] = (CASE rres[r].isOn = Absent -> [kind |-> "failure", val |-> 0]
                        [] rres[r].isOn = "true" -> [kind |-> "value", val |-> ACTIVE]
                        [] rres[r].isOn = "false" -> [kind |-> "value", val |-> INACTIVE])
      /\ rkind[r] = "getIntensity" =>
           rout[r] = (CASE rres[r].fanIntensity = Absent -> [kind |-> "failure", val |-> 0]
                        [] rres[r].fanIntensity = "0" -> [kind |-> "value", val |-> 25]
                        [] rres[r].fanIntensity = "1" -> [kind |-> "value", val |-> 50]
                        [] rres[r].fanIntensity = "2" -> [kind |-> "value", val |-> 75]
                        [] rres[r].fanIntensity = "3" -> [kind |-> "value", val |-> 100])
      /\ rkind[r] = "getSwingMode" =>
           rout[r] = (CASE rres[r].isOscillating = Absent -> [kind |-> "failure", val |-> 0]
                        [] rres[r].isOscillating = "true" -> [kind |-> "value", val |-> SWING_ENABLED]
                        [] rres[r].isOscillating = "false" -> [kind |-> "value", val |-> SWING_DISABLED])

\* one snapshot with fanIntensity present and isOn absent: getIntensity
\* returns the percentage while getActive fails
C18_Witness ==
  /\ rpc[1] = "done" /\ rkind[1] = "getIntensity" /\ rpc[2] = "done" /\ rkind[2] = "getActive"
  /\ rres[1] = rres[2] /\ rres[1].isOn = Absent /\ rres[1].fanIntensity = "0"
  /\ rout[1] = [kind |-> "value", val |-> 25] /\ rout[2] = [kind |-> "failure", val |-> 0]

\* C19: on a polling tick a characteristic is updated exactly when poll()
\* returned a changed snapshot and the characteristic's field is present in
\* it (active from isOn, rotation speed from fanIntensity, swing mode from
\* isOscillating), with the value of that field; otherwise it is untouched.
C19_PushOnlyPresentChanged ==
  \A r \in Readers :
    (rpc[r] = "done" /\ rkind[r] = "poll") =>
      /\ rpush[r].active =
           (IF rout[r] = Changed /\ rres[r].isOn # Absent
            THEN [kind |-> "value", val |-> IF rres[r].isOn = "true" THEN ACTIVE ELSE INACTIVE]
            ELSE [kind |-> "untouched", val |-> 0])
      /\ rpush[r].speed =
           (IF rout[r] = Changed /\ rres[r].fanIntensity # Absent
            THEN [kind |-> "value",
                  val |-> CASE rres[r].fanIntensity = "0" -> 25
                            [] rres[r].fanIntensity = "1" -> 50
                            [] rres[r].fanIntensity = "2" -> 75
                            [] rres[r].fanIntensity = "3" -> 100]
            ELSE [kind |-> "untouched", val |-> 0])
      /\ rpush[r].swing =
           (IF rout[r] = Changed /\ rres[r].isOscillating # Absent
            THEN [kind |-> "value",
                  val |-> IF rres[r].isOscillating = "true" THEN SWING_ENABLED ELSE SWING_DISABLED]
            ELSE [kind |-> "untouched", val |-> 0])

\* a changed snapshot with only isOscillating present updates the swing mode
\* alone; the tick that saw no change updates nothing
C19_Witness ==
  /\ rpc[1] = "done" /\ rkind[1] = "poll" /\ rout[1] = Changed
  /\ rres[1].isOn = Absent /\ rres[1].isOscillating = "true"
  /\ rpush[1].swing = [kind |-> "value", val |-> SWING_ENABLED]
  /\ rpush[1].active = [kind |-> "untouched", val |-> 0]
  /\ rpc[2] = "done" /\ rkind[2] = "poll" /\ rout[2] = NoChange /\ rres[2].isOn = "true"
  /\ rpush[2].active = [kind |-> "untouched", val |-> 0]

\* C20: a failed status query (transport error, empty device list, parser or
\* JSON exception) and an expired readiness timeout resolve every waiting
\* poll() in that very step, with { connected: false } and an outcome of
\* "changed" or "no change"; a resolved poll() never holds anything but a
\* snapshot.
C20_PollNeverFails ==
  [][/\ ( \/ (inner = "query" /\ innerQ \in pending \ pending')
          \/ (inner = "gate" /\ inner' = "none") )
          => \A r \in Readers :
               (rpc[r] = "waiting" /\ rkind[r] = "poll") =>
                 /\ rpc'[r] = "done" /\ rout'[r] \in {Changed, NoChange}
                 /\ rres'[r] # Null
     /\ \A r \in Readers :
          (Resolved(r) /\ rkind[r] = "poll" /\ rsrc'[r] = "fallback") =>
            /\ rres'[r].connected = "false" /\ rres'[r].isOn = Absent
            /\ rout'[r] \in {Changed, NoChange}]_vars

\* two polls in a row met a failure: the second reports no change, and the
\* poller is idle again, ready for the next tick
C20_Witness ==
  /\ rpc[1] = "done" /\ rkind[1] = "poll" /\ rsrc[1] = "fallback" /\ rout[1] = Changed
  /\ rpc[2] = "done" /\ rkind[2] = "poll" /\ rsrc[2] = "fallback" /\ rout[2] = NoChange
  /\ previous.connected = "false" /\ inner = "none" /\ waiters = <<>>

\* the first device's capability list of the result being parsed
FirstCaps == IF pres.hasStates /\ Len(pres.deviceStates) >= 1 THEN pres.deviceStates[1] ELSE <<>>
\* the result has a first device and each of its entries is JSON
Decodes ==
  /\ pres.hasStates /\ Len(pres.deviceStates) >= 1
  /\ \A i \in 1..Len(FirstCaps) : FirstCaps[i].json = "ok"
\* the FanStatus accumulated after the first k entries
Prefix(k) == parseCapabilityStates(SubSeq(FirstCaps, 1, k)).status
BadTimer(e) ==
  /\ e.json = "ok" /\ e.namespace = "Alexa.ModeController" /\ e.instance = "3"
  /\ e.value \notin {Absent, "0", "1", "2", "3", "4"}
BadIntensity(e) ==
  /\ e.json = "ok" /\ e.namespace = "Alexa.ModeController" /\ e.instance = "1"
  /\ e.value \notin {Absent, "0", "1", "2", "3"}

\* C21: in a parse that succeeds, each entry acts on the accumulated result
\* as the table says: PowerController with a value sets isOn = (value = "ON"),
\* ModeController instance "1" with a value in 0..3 sets fanIntensity,
\* ToggleController instance "2" with a value sets isOscillating = (value =
\* "ON"), EndpointHealth sets connected = (value = "OK"), and nothing else
\* changes; an entry of an unknown namespace, a ToggleController entry of
\* another instance and a ModeController entry of an instance the parser does
\* not know ("3" is the shutdown timer) change no field.
C21_ParserTable ==
  (Decodes /\ pout.ok) =>
    /\ pout.status = Prefix(Len(FirstCaps))
    /\ Prefix(0) = [connected |-> Absent, isOn |-> Absent, fanIntensity |-> Absent,
                    isOscillating |-> Absent, shutdownTimer |-> Absent]
    /\ \A i \in 1..Len(FirstCaps) :
         LET e == FirstCaps[i]
             before == Prefix(i - 1)
             after == Prefix(i)
         IN /\ (e.namespace = "Alexa.PowerController" /\ e.value # Absent)
                 => after = [before EXCEPT !.isOn = IF e.value = "ON" THEN "true" ELSE "false"]
            /\ (e.namespace = "Alexa.ModeController" /\ e.instance = "1"
                  /\ e.value \in {"0", "1", "2", "3"})
                 => after = [before EXCEPT !.fanIntensity = e.value]
            /\ (e.namespace = "Alexa.ToggleController" /\ e.instance = "2" /\ e.value # Absent)
                 => after = [before EXCEPT !.isOscillating =
                                             IF e.value = "ON" THEN "true" ELSE "false"]
            /\ e.namespace = "Alexa.EndpointHealth"
                 => after = [before EXCEPT !.connected = IF e.value = "OK" THEN "true" ELSE "false"]
            /\ ( \/ e.namespace \notin {"Alexa.EndpointHealth", "Alexa.PowerController",
                                         "Alexa.ModeController", "Alexa.ToggleController"}
                 \/ (e.namespace = "Alexa.ToggleController" /\ e.instance # "2")
                 \/ (e.namespace = "Alexa.ModeController" /\ e.instance \notin {"1", "3"}) )
                 => after = before

C21_Witness ==
  /\ pres = QueryResult(<<
         <<Cap("Alexa.ModeController", "1", "3"), Cap("Alexa.Other", Absent, "ON")>> >>)
  /\ pout.ok /\ pout.status.fanIntensity = "3" /\ pout.status.isOn = Absent

\* the snapshot fanStatus$ emits when the transport answers with pres
Emitted == fanStatusOf(getDeviceStatus(pres))

\* C22: a ModeController instance "1" entry with a value outside 0..3 makes
\* the whole parse fail, so no FanStatus the parser produces and no snapshot
\* the stream emits for an answer has a fanIntensity outside 0..3, and
\* neither getIntensity nor the characteristic update meets a level that
\* fanIntensityToPercentage does not support.
C22_IntensityGuard ==
  /\ (Decodes /\ \E i \in 1..Len(FirstCaps) : BadIntensity(FirstCaps[i]))
       => pout = [ok |-> FALSE, status |-> Null]
  /\ pout.ok => pout.status.fanIntensity \in {Absent, "0", "1", "2", "3"}
  /\ Emitted.fanIntensity \in {Absent, "0", "1", "2", "3"}
  /\ getIntensityOf(Emitted).kind \in {"value", "failure"}
  /\ updateCharacteristics(Emitted).speed.kind \in {"value", "untouched"}

C22_Witness ==
  /\ pres = QueryResult(<<
         <<Cap("Alexa.PowerController", Absent, "ON"), Cap("Alexa.ModeController", "1", "9")>> >>)
  /\ ~pout.ok /\ Emitted.isOn = Absent /\ Emitted.connected = "false"

\* C23: a query result whose device-state list is empty or missing makes the
\* parse fail instead of producing a FanStatus; the stream emits
\* { connected: false } for it and each getter ends in a
\* service-communication failure.
C23_NoDeviceState ==
  (~pres.hasStates \/ Len(pres.deviceStates) = 0) =>
    /\ pout = [ok |-> FALSE, status |-> Null]
    /\ Emitted = [connected |-> "false", isOn |-> Absent, fanIntensity |-> Absent,
                  isOscillating |-> Absent, shutdownTimer |-> Absent]
    /\ getActiveOf(Emitted) = [kind |-> "failure", val |-> 0]
    /\ getIntensityOf(Emitted) = [kind |-> "failure", val |-> 0]
    /\ getSwingModeOf(Emitted) = [kind |-> "failure", val |-> 0]

C23_Witness ==
  /\ pres.hasStates /\ Len(pres.deviceStates) = 0 /\ ~pres.err
  /\ ~pout.ok /\ Emitted.connected = "false"

\* C24 as stated: an entry that fails to decode does not abort the parse:
\* the result is the FanStatus of the entries that do decode.
C24_Claim ==
  (pres.hasStates /\ Len(pres.deviceStates) >= 1) =>
    pout = parseCapabilityStates(SelectSeq(FirstCaps, LAMBDA e : e.json = "ok"))

\* C25 as stated: a field is present only if some entry carried an
\* explicit, recognized value for it.
C25_Original ==
  pout.ok =>
    /\ pout.status.connected # Absent =>
         \E i \in 1..Len(FirstCaps) :
           FirstCaps[i].namespace = "Alexa.EndpointHealth" /\ FirstCaps[i].value # Absent
    /\ pout.status.isOn # Absent =>
         \E i \in 1..Len(FirstCaps) :
           FirstCaps[i].namespace = "Alexa.PowerController" /\ FirstCaps[i].value \in {"ON", "OFF"}
    /\ pout.status.isOscillating # Absent =>
         \E i \in 1..Len(FirstCaps) :
           /\ FirstCaps[i].namespace = "Alexa.ToggleController" /\ FirstCaps[i].instance = "2"
           /\ FirstCaps[i].value \in {"ON", "OFF"}
    /\ pout.status.fanIntensity # Absent =>
         \E i \in 1..Len(FirstCaps) :
           /\ FirstCaps[i].namespace = "Alexa.ModeController" /\ FirstCaps[i].instance = "1"
           /\ FirstCaps[i].value \in {"0", "1", "2", "3"}
    /\ pout.status.shutdownTimer # Absent =>
         \E i \in 1..Len(FirstCaps) :
           /\ FirstCaps[i].namespace = "Alexa.ModeController" /\ FirstCaps[i].instance = "3"
           /\ FirstCaps[i].value \in {"0", "1", "2", "3", "4"}

\* C25, amended: fanIntensity and shutdownTimer are present exactly when an
\* entry carried a recognized value for them; connected is present exactly
\* when the list has an EndpointHealth entry, with or without a value (false
\* unless the value is "OK"); isOn and isOscillating are present exactly when
\* a PowerController / ToggleController instance "2" entry carried any value
\* at all, recognized or not (false unless the value is "ON").
C25_FieldProvenance ==
  pout.ok =>
    /\ pout.status.connected # Absent <=>
         \E i \in 1..Len(FirstCaps) : FirstCaps[i].namespace = "Alexa.EndpointHealth"
    /\ pout.status.connected = "true" =>
         \E i \in 1..Len(FirstCaps) :
           FirstCaps[i].namespace = "Alexa.EndpointHealth" /\ FirstCaps[i].value = "OK"
    /\ pout.status.isOn # Absent <=>
         \E i \in 1..Len(FirstCaps) :
           FirstCaps[i].namespace = "Alexa.PowerController" /\ FirstCaps[i].value # Absent
    /\ pout.status.isOn = "true" =>
         \E i \in 1..Len(FirstCaps) :
           FirstCaps[i].namespace = "Alexa.PowerController" /\ FirstCaps[i].value = "ON"
    /\ pout.status.isOscillating # Absent <=>
         \E i \in 1..Len(FirstCaps) :
           /\ FirstCaps[i].namespace = "Alexa.ToggleController" /\ FirstCaps[i].instance = "2"
           /\ FirstCaps[i].value # Absent
    /\ pout.status.fanIntensity # Absent <=>
         \E i \in 1..Len(FirstCaps) :
           /\ FirstCaps[i].namespace = "Alexa.ModeController" /\ FirstCaps[i].instance = "1"
           /\ FirstCaps[i].value \in {"0", "1", "2", "3"}
    /\ pout.status.shutdownTimer # Absent <=>
         \E i \in 1..Len(FirstCaps) :
           /\ FirstCaps[i].namespace = "Alexa.ModeController" /\ FirstCaps[i].instance = "3"
           /\ FirstCaps[i].value \in {"0", "1", "2", "3", "4"}

\* an EndpointHealth entry without a value and a PowerController entry with
\* an unknown value both set their field, to false
C25_Witness ==
  /\ pres = QueryResult(<<
         <<Cap("Alexa.EndpointHealth", Absent, Absent),
           Cap("Alexa.PowerController", Absent, "BANANA")>> >>)
  /\ pout.ok /\ pout.status.connected = "false" /\ pout.status.isOn = "false"

\* C26: a ModeController instance "3" entry with a value outside 0..4 does
\* not fail the parse and sets nothing: the result is the one of the list
\* without such entries, and shutdownTimer is unset unless another entry
\* carried a timer value in 0..4.
C26_BadTimerSkipped ==
  Decodes =>
    /\ (\A i \in 1..Len(FirstCaps) : ~BadIntensity(FirstCaps[i])) => pout.ok
    /\ pout = parseCapabilityStates(SelectSeq(FirstCaps, LAMBDA e : ~BadTimer(e)))
    /\ \A i \in 1..Len(FirstCaps) : BadTimer(FirstCaps[i]) => Prefix(i) = Prefix(i - 1)
    /\ ( /\ pout.ok
         /\ \A i \in 1..Len(FirstCaps) :
              ~( /\ FirstCaps[i].namespace = "Alexa.ModeController" /\ FirstCaps[i].instance = "3"
                 /\ FirstCaps[i].value \in {"0", "1", "2", "3", "4"} ) )
         => pout.status.shutdownTimer = Absent

C26_Witness ==
  /\ pres = QueryResult(<<
         <<Cap("Alexa.ModeController", "3", "9"), Cap("Alexa.ToggleController", "2", "ON")>> >>)
  /\ pout.ok /\ pout.status.shutdownTimer = Absent /\ pout.status.isOscillating = "true"

\* C27 as stated: every IntensityChange command handed to the transport
\* carries a level in 0..3, for every percentage setIntensity is invoked
\* with, values above 100 included (the level is clamped).
C27_Claim ==
  \A s \in Setters :
    scmd[s].action = "setModeValue" => scmd[s].mode \in {"0", "1", "2", "3"}

\* C28: poller.previous changes only in a step in which a poll() resolves,
\* and then to the snapshot that poll resolved to; a step that resolves only
\* getters, and every step of a set operation, leaves it unchanged; and
\* whenever a poll() resolves, changed or not, previous becomes its snapshot.
C28_PreviousOwnedByPoll ==
  [][/\ previous' # previous =>
          \E r \in Readers : Resolved(r) /\ rkind[r] = "poll" /\ previous' = rres'[r]
     /\ \A r \in Readers : (Resolved(r) /\ rkind[r] = "poll") => previous' = rres'[r]
     /\ (\A r \in Readers : Resolved(r) => rkind[r] \in Getters) => previous' = previous
     /\ (spc' # spc \/ scmd' # scmd \/ sreq' # sreq) => previous' = previous]_vars

\* a getter and a poll shared a fetch; the poll reported no change and
\* previous is its snapshot; a set operation completed meanwhile
C28_Witness ==
  /\ rpc[1] = "done" /\ rkind[1] = "getActive" /\ rpc[2] = "done" /\ rkind[2] = "poll"
  /\ rres[1] = rres[2] /\ rsrc[2] = "emission" /\ rout[2] = NoChange
  /\ previous = rres[2] /\ spc[1] = "ok" /\ scalls[1] = 1

\* C29: a poll() whose snapshot agrees with the previous poll's snapshot on
\* isOn, fanIntensity and isOscillating returns "no change", whatever
\* connected and shutdownTimer are in the two.
C29_HealthAndTimerIgnored ==
  [][\A r \in Readers :
       (Resolved(r) /\ rkind[r] = "poll") =>
         LET prev == PrevBefore(PositionOf(r), rres'[r])
         IN ( /\ prev # Null
              /\ rres'[r].isOn = prev.isOn
              /\ rres'[r].fanIntensity = prev.fanIntensity
              /\ rres'[r].isOscillating = prev.isOscillating )
              => rout'[r] = NoChange]_vars

\* two polls in a row, the device's health differing between them and
\* nothing else: the second reports no change
C29_Witness ==
  /\ rpc[1] = "done" /\ rkind[1] = "poll" /\ rsrc[1] = "emission"
  /\ rpc[2] = "done" /\ rkind[2] = "poll" /\ rsrc[2] = "emission"
  /\ rres[1].connected = "true" /\ rres[2].connected = "false"
  /\ rres[1].isOn = "true" /\ rres[2].isOn = "true"
  /\ rres[1].fanIntensity = rres[2].fanIntensity
  /\ rres[1].isOscillating = rres[2].isOscillating
  /\ rout[2] = NoChange /\ previous = rres[2]

\* C30: the stream always listens to the query started last; the answer to
\* an older query resolves no read and changes no snapshot; and while a
\* query is listened to, reads resolve only by its answer, all waiting reads
\* together and with the same snapshot.
C30_OlderQueryDiscarded ==
  [][/\ NewQuery => (inner' = "query" /\ innerQ' \in pending' \ pending)
     /\ \A q \in pending \ pending' :
          q # innerQ => (rpc' = rpc /\ rres' = rres /\ waiters' = waiters /\ innerQ' = innerQ)
     /\ \A r \in Readers :
          (Resolved(r) /\ inner = "query") =>
            /\ innerQ \in pending \ pending'
            /\ \A o \in Readers :
                 rpc[o] = "waiting" => (rpc'[o] = "done" /\ rres'[o] = rres'[r])]_vars

\* both reads were resolved by the newer query while the older one is still
\* in flight
C30_Witness ==
  /\ rpc[1] = "done" /\ rpc[2] = "done" /\ rsrc[1] = "emission" /\ rsrc[2] = "emission"
  /\ rres[1] = rres[2] /\ inner = "none" /\ pending # {}

\* the four levels of the fan's mode controller
Levels == {"0", "1", "2", "3"}

\* C33: the two quantization mappings round-trip: for every level L of 0..3,
\* fanIntensityToPercentage gives a percentage (25, 50, 75, 100) from which
\* setIntensity computes L again, and a setIntensity call with that percentage
\* hands over the IntensityChange command with exactly level L.
C33_RoundTrip ==
  /\ \A L \in Levels :
       /\ fanIntensityToPercentage(L).kind = "value"
       /\ ~IgnoresZero(fanIntensityToPercentage(L).val)
       /\ toFixed0(intensityOf(fanIntensityToPercentage(L).val)) = L
  /\ \A s \in Setters : \A L \in Levels :
       sreq[s] = Request("setIntensity", fanIntensityToPercentage(L).val) =>
         scmd[s] = FanIntensityChangeCommand(L)

C33_Witness ==
  /\ sreq[1] = Request("setIntensity", fanIntensityToPercentage("2").val)
  /\ scmd[1] = FanIntensityChangeCommand("2") /\ spc[1] = "ok"
  /\ sreq[2] = Request("setIntensity", fanIntensityToPercentage("1").val)
  /\ scmd[2] = FanIntensityChangeCommand("1") /\ spc[2] = "exec"

\* C31 as stated: a status read issued after a set command has completed
\* resolves with a snapshot whose upstream query was issued after that command
\* completed; no read returns device state fetched before a write that had
\* completed when the read was issued.
C31_Original ==
  [][\A r \in Readers : (Resolved(r) /\ rsrc'[r] = "emission") => rord[r] # "old"]_vars

\* C31, amended: a status read issued after a set command has completed, and
\* whose refresh request throttleTime lets through, waits from then on for a
\* query issued after that command completed; only a read whose refresh is
\* dropped can wait for the query issued before the command completed, and no
\* waiting read falls back to such a query later.
C31_FreshUnlessJoined ==
  [][\A r \in Readers :
       /\ (ReadIssued(r) /\ ~Throttled(throttle)) => rord'[r] # "old"
       /\ (rpc[r] = "waiting" /\ rord[r] # "old") => rord'[r] # "old"
       /\ (ReadIssued(r) /\ qold /\ inner = "query" /\ ~Throttled(throttle)) =>
            (innerQ' # innerQ /\ ~qold' /\ rord'[r] = "newer")]_vars

C31_Witness ==
  /\ spc[1] = "ok" /\ serr[1] = "ok"
  /\ rpc[1] = "waiting" /\ rord[1] = "newer" /\ rkind[1] = "getActive"
  /\ inner = "query" /\ ~qold
  /\ rpc[2] = "waiting" /\ rord[2] = "none"

\* C32: when two overlapping poll() calls are resolved by the same emission
\* of the shared stream, at most one of them returns the snapshot as changed,
\* the one that resumes later returns "no change", and at most one of them
\* pushes anything to the characteristics.
C32_OneChangePerSnapshot ==
  [][\A r1, r2 \in Readers :
       (/\ r1 # r2 /\ Resolved(r1) /\ Resolved(r2)
        /\ rkind[r1] = "poll" /\ rkind[r2] = "poll"
        /\ PositionOf(r1) < PositionOf(r2)) =>
         /\ rres'[r1] = rres'[r2]
         /\ rout'[r2] = NoChange /\ rpush'[r2] = NoUpdate
         /\ rout'[r1] \in {Changed, NoChange}
         /\ previous' = rres'[r1]]_vars

C32_Witness ==
  /\ rpc[1] = "done" /\ rkind[1] = "poll" /\ rwin[1] = "lead"
  /\ rpc[2] = "done" /\ rkind[2] = "poll" /\ rwin[2] = "lead"
  /\ rsrc[1] = "emission" /\ rsrc[2] = "emission" /\ rres[1] = rres[2]
  /\ rout[1] = Changed /\ rpush[1] # NoUpdate
  /\ rout[2] = NoChange /\ rpush[2] = NoUpdate
  /\ previous = rres[1] /\ previous.isOscillating = "true"
====
